---- MODULE Spec2Model ----
(***************************************************************************)
(* youtube-subscription-sync-cli (src/src/cli.ts): the two-phase OAuth     *)
(* orchestration and the subscription enumeration / replication it drives. *)
(*                                                                         *)
(* Node runs the program on one event loop.  A step of the model is one    *)
(* macrotask: the arrival of an HTTP request, of a fetch response or of a  *)
(* prompt answer, together with every continuation (microtask) that runs   *)
(* before the loop takes the next event.  `await response.json()` is       *)
(* folded into the response event, because nothing shared is read or       *)
(* written between the two.  Every fetch that settles does so with an HTTP *)
(* response; a hung request is a response that never arrives.             *)
(*                                                                         *)
(* Spec is the whole program with handlers running side by side; there the *)
(* provider answers each enumeration with one page.  EnumSpec follows the  *)
(* source phase of one callback page by page.  FairSpec is Spec with every *)
(* fetch answered in the end.                                              *)
(***************************************************************************)
EXTENDS Integers, Sequences, FiniteSets, TLC

\* accepted /callback requests modelled per run
MaxCallbacks == 3
\* page requests one enumeration may issue in the model
MaxPages == 3

\* process.exit has not been called
Running == -1
\* query parameter `state` absent
NoState == -1
\* a `state` value that no uuid() call produced
Forged == -2
\* nextPageToken absent (undefined is falsy, like "")
NoToken == 0
\* continuation tokens the provider may return
PageTokens == {1, 2}

\* the JavaScript value undefined
undefined == [undefined |-> TRUE]

\* type SubscriptionSnippet of channel c
Snippet(c) == [title |-> c, resourceId |-> [kind |-> "youtube#channel", channelId |-> c]]

\* type Subscription: one element of SubscriptionsResponse.items
Item(c) == [id |-> c, snippet |-> Snippet(c)]

\* the `items` field of a page body: a list of items, possibly empty
ItemLists == {<<>>, <<Item(1)>>, <<Item(2), Item(1)>>}

\* a page fetch answered with a non-2xx status
PageError == [ok |-> FALSE, nextPageToken |-> NoToken, hasItems |-> FALSE, items |-> <<>>]

\* what a page fetch can answer: a non-2xx status, or a body whose nextPageToken
\* and items may each be absent (hasItems = FALSE: body.items is undefined)
Responses(tokens, lists) ==
  {PageError}
  \cup [ok : {TRUE}, nextPageToken : {NoToken} \cup tokens, hasItems : {TRUE},
        items : lists]
  \cup [ok : {TRUE}, nextPageToken : {NoToken} \cup tokens, hasItems : {FALSE},
        items : {<<>>}]

\* the page responses of EnumSpec, which follows one enumeration page by page
EnumResponses == Responses(PageTokens, ItemLists)

\* the page responses of Spec, where handlers run side by side: the provider
\* answers every enumeration with a single page
PageResponses == Responses({}, {<<>>, <<Item(1)>>, <<Item(1), Item(2)>>})

\* what the token endpoint can answer
ExchangeResponses == {"access_token", "not_ok", "no_access_token"}

\* the shapes ctx.query.code can take
CodeShapes == {"absent", "array", "string"}

CbIds == 1..MaxCallbacks

VARIABLES
  applicationState,  \* cli.ts:14
  oauthState,        \* cli.ts:15, uuids are numbered in order of generation
  subscriptions,     \* cli.ts:17
  promptSource,      \* start(): "asking" while promptSourceLogin awaits, then "answered"
  exitCode,          \* Running, or the argument of process.exit / the runtime's exit code
  exitCause,         \* which statement ended the process
  opened,            \* the authorization URLs passed to open(), as [state, phase]
  answer,            \* ctx.body of the last /callback request that was refused at once
  cb,                \* accepted /callback handlers, in order of arrival
  enum,              \* per accepted callback: its loginSource / getAllSubscriptions frame
  repl               \* per accepted callback: its loginDestination frame

vars == <<applicationState, oauthState, subscriptions, promptSource, exitCode, exitCause,
          opened, answer, cb, enum, repl>>

\* a loginSource frame: pc, and the locals of getAllSubscriptions (nextPage, and
\* subscriptions as acc); requests counts the page requests it has issued, sent
\* lists the pageToken each of them carried and pages the bodies of the 2xx
\* answers so far.  The frame is dropped when getAllSubscriptions returns.
NoEnum == [pc |-> "none", nextPage |-> NoToken, requests |-> 0, acc |-> <<>>,
           sent |-> <<>>, pages |-> <<>>]

\* a loginDestination frame: the array it mapped, and per element the state of
\* its creation request and the notice logged for it
NoRepl == [pc |-> "none", subs |-> <<>>, req |-> <<>>, notice |-> <<>>]

\* uuid(): a value no earlier call returned (0 is the one line 15 produced)
uuid == Len(opened) + 1

\* the anti-forgery tokens that were put into an authorization URL
Issued == {opened[k].state : k \in 1..Len(opened)}

Init ==
  /\ applicationState = "login_source"
  /\ oauthState = 0
  /\ subscriptions = <<>>
  /\ promptSource = "asking"
  /\ exitCode = Running
  /\ exitCause = "none"
  /\ opened = <<>>
  /\ answer = "none"
  /\ cb = <<>>
  /\ enum = [i \in CbIds |-> NoEnum]
  /\ repl = [i \in CbIds |-> NoRepl]

\* process.exit(code)
exit(code, cause) ==
  /\ exitCode' = code
  /\ exitCause' = cause

\* startLogin, given the phase the URL is opened in
startLogin(phase) ==
  /\ oauthState' = uuid
  /\ opened' = Append(opened, [state |-> uuid, phase |-> phase])

\* lines 94-96 left out: start() goes on to startLogin whatever the answer
promptSourceLogin_ignored(login) ==
  /\ exitCode = Running
  /\ promptSource = "asking"
  /\ promptSource' = "answered"
  /\ startLogin(applicationState)
  /\ UNCHANGED <<applicationState, subscriptions, exitCode, exitCause, answer, cb, enum,
                 repl>>

\* promptSourceLogin and the rest of start(): the answer to the first prompt
promptSourceLogin(login) ==
  /\ exitCode = Running
  /\ promptSource = "asking"
  /\ promptSource' = "answered"
  /\ IF ~login
       THEN /\ exit(0, "declined")
            /\ UNCHANGED <<oauthState, opened>>
       ELSE /\ startLogin(applicationState)
            /\ UNCHANGED <<exitCode, exitCause>>
  /\ UNCHANGED <<applicationState, subscriptions, answer, cb, enum, repl>>

\* the typeof test of line 245 left out: any code that is present passes
codeValid_truthy(code) == code # "absent"

\* line 245: code is present and a single string
codeValid(code) == code = "string"

\* line 249 comparing with every token handed out so far, not the current one
stateValid_issued(responseState) == responseState \in Issued

\* line 249: state is present and equals the current oauthState
stateValid(responseState) == responseState # NoState /\ responseState = oauthState

\* router.get("/callback") up to its first await: a request arrives
callback(code, responseState) ==
  /\ exitCode = Running
  /\ IF ~codeValid(code)
       THEN /\ answer' = "no_code"
            /\ UNCHANGED cb
       ELSE IF ~stateValid(responseState)
         THEN /\ answer' = "invalid_state"
              /\ UNCHANGED cb
         ELSE /\ Len(cb) < MaxCallbacks
              /\ UNCHANGED answer
              /\ cb' = Append(cb, [state |-> responseState, pc |-> "exchanging",
                                   validatedIn |-> applicationState])
  /\ UNCHANGED <<applicationState, oauthState, subscriptions, promptSource, exitCode,
                 exitCause, opened, enum, repl>>

\* exchangeForAccessToken: the access token (that of callback i), or none
NoAccessToken == 0

\* the test of line 201 left out: a non-2xx answer is read as a token response
exchangeForAccessToken_unchecked(i, res) ==
  IF res # "no_access_token" THEN i ELSE NoAccessToken

exchangeForAccessToken(i, res) == IF res = "access_token" THEN i ELSE NoAccessToken

\* line 171: body.items?.map(item => item.snippet), for a body that has items
snippets(items) == [k \in 1..Len(items) |-> items[k].snippet]

\* line 170: subscriptions.concat(...); concat appends a non-array argument,
\* undefined included, as one element
concatPage(acc, body) ==
  IF body.hasItems THEN acc \o snippets(body.items) ELSE Append(acc, undefined)

\* lines 132-137 left out: an empty result goes on to the destination prompt
loginSourceResume_unchecked(i, result) ==
  /\ subscriptions' = result
  /\ enum' = [enum EXCEPT ![i] = [NoEnum EXCEPT !.pc = "prompt"]]
  /\ UNCHANGED <<exitCode, exitCause>>

\* lines 131-139 of loginSource: getAllSubscriptions returned `result` to frame i
loginSourceResume(i, result) ==
  /\ subscriptions' = result
  /\ IF Len(result) = 0
       THEN /\ exit(1, "no_subscriptions")
            /\ enum' = [enum EXCEPT ![i] = [NoEnum EXCEPT !.pc = "exited"]]
       ELSE /\ enum' = [enum EXCEPT ![i] = [NoEnum EXCEPT !.pc = "prompt"]]
            /\ UNCHANGED <<exitCode, exitCause>>

\* line 150 building every URL without a pageToken parameter
pageToken_none(nextPage) == NoToken

\* line 150: the pageToken parameter of a page request; none while nextPage is falsy
pageToken(nextPage) == IF nextPage # NoToken THEN nextPage ELSE NoToken

\* lines 145-158: the locals of getAllSubscriptions when its first request is out
firstPage ==
  [NoEnum EXCEPT !.pc = "fetching", !.requests = 1, !.sent = <<pageToken(NoToken)>>]

\* loginSource up to the first fetch of getAllSubscriptions (lines 128-158)
loginSource(i) == enum' = [enum EXCEPT ![i] = firstPage]

\* line 173: the loop condition
morePages(nextPage) == nextPage # NoToken

\* getAllSubscriptions: the response to the outstanding page request of frame i
getAllSubscriptions(i, response) ==
  /\ exitCode = Running
  /\ i \in 1..Len(cb)
  /\ enum[i].pc = "fetching"
  /\ IF ~response.ok
       THEN loginSourceResume(i, enum[i].acc)
       ELSE LET acc == concatPage(enum[i].acc, response)
                nextPage == response.nextPageToken
            IN IF morePages(nextPage)
                 THEN /\ enum[i].requests < MaxPages
                      /\ enum' = [enum EXCEPT ![i] =
                                    [pc |-> "fetching", nextPage |-> nextPage,
                                     requests |-> enum[i].requests + 1, acc |-> acc,
                                     sent |-> Append(enum[i].sent, pageToken(nextPage)),
                                     pages |-> Append(enum[i].pages, response)]]
                      /\ UNCHANGED <<subscriptions, exitCode, exitCause>>
                 ELSE loginSourceResume(i, acc)
  /\ UNCHANGED <<applicationState, oauthState, promptSource, opened, answer, cb, repl>>

\* promptDestinationLogin of frame i: the answer to the second prompt
promptDestinationLogin(i, login) ==
  /\ exitCode = Running
  /\ i \in 1..Len(cb)
  /\ enum[i].pc = "prompt"
  /\ IF ~login
       THEN /\ exit(0, "declined")
            /\ enum' = [enum EXCEPT ![i].pc = "exited"]
            /\ UNCHANGED <<applicationState, oauthState, opened>>
       ELSE /\ applicationState' = "login_destination"
            /\ startLogin("login_destination")
            /\ enum' = [enum EXCEPT ![i].pc = "done"]
            /\ UNCHANGED <<exitCode, exitCause>>
  /\ UNCHANGED <<subscriptions, promptSource, answer, cb, repl>>

\* subscribeChannel up to its fetch: reading subscription.resourceId of undefined
\* throws, so no request is made for that element
subscribeChannel(subscription) == IF subscription = undefined THEN "threw" ELSE "pending"

\* lines 183-187 with the success branch taken whatever the outcome
notice_subscribed(success) == "Subscribed"

\* lines 183-187: the notice logged for an element once its request has settled
notice(success) == IF success THEN "Subscribed" ELSE "Failed"

\* Promise.race in place of Promise.all: some element's callback has resolved
anySettled(r) == \E k \in 1..Len(r.req) : r.req[k] \in {"ok", "failed"}

\* Promise.all: every element's callback has resolved
allSettled(r) == \A k \in 1..Len(r.req) : r.req[k] \in {"ok", "failed"}

\* Promise.all rejects as soon as one callback rejects
anyThrew(r) == \E k \in 1..Len(r.req) : r.req[k] = "threw"

\* loginDestination up to `await Promise.all` (lines 177-189).  A rejected
\* Promise.all rejects loginDestination, which nobody awaits: the runtime either
\* ends the process with code 1 (unhandled rejections throw) or only warns.
loginDestination(i, throws) ==
  LET r == [pc |-> "awaiting", subs |-> subscriptions,
            req |-> [k \in 1..Len(subscriptions) |-> subscribeChannel(subscriptions[k])],
            notice |-> [k \in 1..Len(subscriptions) |-> "none"]]
  IN IF anyThrew(r)
       THEN /\ repl' = [repl EXCEPT ![i] = [r EXCEPT !.pc = "rejected"]]
            /\ IF throws THEN exit(1, "unhandled_rejection")
                         ELSE UNCHANGED <<exitCode, exitCause>>
       ELSE IF allSettled(r)
         THEN /\ repl' = [repl EXCEPT ![i] = [r EXCEPT !.pc = "done"]]
              /\ exit(0, "done")
         ELSE /\ repl' = [repl EXCEPT ![i] = r]
              /\ UNCHANGED <<exitCode, exitCause>>

\* line 258: the test that guards the call of loginSource
dispatchSource(phase) == phase = "login_source"

\* line 261 without its test: loginDestination is called in either phase
dispatchDestination_always(phase) == TRUE

\* line 261: the test that guards the call of loginDestination
dispatchDestination(phase) == phase = "login_destination"

\* router.get("/callback") from line 253 on: the token endpoint answered handler i.
\* Lines 258 and 261 are two separate tests of applicationState; loginSource
\* runs up to its first await in between and does not assign it.
callbackResume(i, res, throws) ==
  /\ exitCode = Running
  /\ i \in 1..Len(cb)
  /\ cb[i].pc = "exchanging"
  /\ IF exchangeForAccessToken(i, res) = NoAccessToken
       THEN /\ cb' = [cb EXCEPT ![i].pc = "no_token"]
            /\ UNCHANGED <<exitCode, exitCause, enum, repl>>
       ELSE /\ cb' = [cb EXCEPT ![i].pc = IF dispatchSource(applicationState)
                                            THEN "loginSource" ELSE "loginDestination"]
            /\ IF dispatchSource(applicationState)
                 THEN loginSource(i)
                 ELSE UNCHANGED enum
            /\ IF dispatchDestination(applicationState)
                 THEN loginDestination(i, throws)
                 ELSE UNCHANGED <<exitCode, exitCause, repl>>
  /\ UNCHANGED <<applicationState, oauthState, subscriptions, promptSource, opened, answer>>

\* lines 181-190: the creation request of element k of frame i settles
subscribed(i, k, ok) ==
  /\ exitCode = Running
  /\ i \in 1..Len(cb)
  /\ repl[i].pc \in {"awaiting", "rejected"}
  /\ k \in 1..Len(repl[i].req)
  /\ repl[i].req[k] = "pending"
  /\ LET r == [repl[i] EXCEPT !.req[k] = IF ok THEN "ok" ELSE "failed",
                              !.notice[k] = notice(ok)]
     IN IF r.pc = "awaiting" /\ allSettled(r)
          THEN /\ repl' = [repl EXCEPT ![i] = [r EXCEPT !.pc = "done"]]
               /\ exit(0, "done")
          ELSE /\ repl' = [repl EXCEPT ![i] = r]
               /\ UNCHANGED <<exitCode, exitCause>>
  /\ UNCHANGED <<applicationState, oauthState, subscriptions, promptSource, opened,
                 answer, cb, enum>>

\* the /callback queries a browser can send: a malformed code with no state or
\* with the token of the latest authorization URL, or a well-formed code with no
\* state, a made-up state, or the token of any authorization URL opened so far.
\* The value line 15 gives oauthState is never put in a URL, so nobody sends it.
Queries ==
  ({"absent", "array"} \X ({NoState} \cup {s \in Issued : s = oauthState}))
  \cup ({"string"} \X ({NoState, Forged} \cup Issued))

Next ==
  \/ \E login \in BOOLEAN : promptSourceLogin(login)
  \/ \E q \in Queries : callback(q[1], q[2])
  \/ \E i \in CbIds, res \in ExchangeResponses, throws \in BOOLEAN :
       callbackResume(i, res, throws)
  \/ \E i \in CbIds, response \in PageResponses :
       getAllSubscriptions(i, response)
  \/ \E i \in CbIds, login \in BOOLEAN : promptDestinationLogin(i, login)
  \/ \E i \in CbIds, ok \in BOOLEAN : \E k \in 1..Len(repl[i].req) : subscribed(i, k, ok)

Spec == Init /\ [][Next]_vars

\* Every fetch is answered in the end: the token endpoint, the page requests
\* and the creation requests.  The user's
\* requests and prompt answers are under no such obligation.
FairSpec ==
  /\ Spec
  /\ WF_vars(\E i \in CbIds, res \in ExchangeResponses, throws \in BOOLEAN :
               callbackResume(i, res, throws))
  /\ WF_vars(\E i \in CbIds, response \in PageResponses :
               getAllSubscriptions(i, response))
  /\ WF_vars(\E i \in CbIds, ok \in BOOLEAN : \E k \in 1..Len(repl[i].req) :
               subscribed(i, k, ok))

\* The source phase of one callback on its own: the source callback was accepted with the token of
\* the first authorization URL, its code was exchanged, and loginSource has sent
\* the first page request.
EnumInit ==
  /\ applicationState = "login_source"
  /\ oauthState = 1
  /\ subscriptions = <<>>
  /\ promptSource = "answered"
  /\ exitCode = Running
  /\ exitCause = "none"
  /\ opened = <<[state |-> 1, phase |-> "login_source"]>>
  /\ answer = "none"
  /\ cb = <<[state |-> 1, pc |-> "loginSource", validatedIn |-> "login_source"]>>
  /\ enum = [i \in CbIds |-> IF i = 1 THEN firstPage ELSE NoEnum]
  /\ repl = [i \in CbIds |-> NoRepl]

EnumNext ==
  \/ \E response \in EnumResponses : getAllSubscriptions(1, response)
  \/ \E login \in BOOLEAN : promptDestinationLogin(1, login)

EnumSpec == EnumInit /\ [][EnumNext]_vars

(***************************************************************************)
(* Properties                                                              *)
(***************************************************************************)

\* the accepted callbacks
Accepted == 1..Len(cb)

\* the callbacks that were dispatched to loginDestination
ReplFrames == {i \in Accepted : repl[i].pc # "none"}

\* the phase in which the authorization URL carrying token t was opened
PhaseOf(t) == opened[CHOOSE k \in 1..Len(opened) : opened[k].state = t].phase

\* frame i of loginSource got its result from getAllSubscriptions in this step,
\* which is where line 131 assigns the global subscriptions
AssignsSubscriptions(i) ==
  /\ i \in Accepted
  /\ enum[i].pc = "fetching"
  /\ enum'[i].pc \in {"prompt", "exited"}

\* C1: the Replicator is invoked at most once per run, and the global sequence it
\* maps is the one stored when the source phase completed: once the phase is
\* login_destination no step changes subscriptions.
C1_ReplicatorOnceOnStoredSequence ==
  [][/\ Cardinality(ReplFrames') <= 1
     /\ applicationState = "login_destination" => subscriptions' = subscriptions]_vars

\* C2: subscriptions is assigned at most once per run, and only while the phase is
\* login_source.
C2_SubscriptionsAssignedOnce ==
  [][\A i \in CbIds :
       AssignsSubscriptions(i) =>
         /\ applicationState = "login_source"
         /\ \A j \in Accepted : enum[j].pc \notin {"prompt", "done", "exited"}]_vars

\* C3: every callback that reached the Replicator carried the anti-forgery token
\* of an authorization URL opened in the destination phase.
C3_ReplicatorTokenFromDestinationCallback ==
  \A i \in ReplFrames : PhaseOf(cb[i].state) = "login_destination"

\* C4: no two accepted callbacks carried the same anti-forgery token.
C4_OneCallbackPerToken ==
  \A i, j \in Accepted : i # j => cb[i].state # cb[j].state

\* C5: a /callback request without a single-string code, or whose state is absent
\* or differs from oauthState, is answered with a refusal and leaves the phase,
\* the token and the subscriptions as they were, and starts no exchange,
\* enumeration or replication.
C5_RefusedCallbackChangesNothing ==
  [][\A code \in CodeShapes, responseState \in {NoState, Forged, 0} \cup Issued :
       (/\ callback(code, responseState)
        /\ \/ code # "string"
           \/ responseState = NoState
           \/ responseState # oauthState)
       => /\ UNCHANGED <<applicationState, oauthState, subscriptions, cb, enum, repl,
                         opened>>
          /\ answer' \in {"no_code", "invalid_state"}]_vars

\* a refusal was answered in the destination phase, with exchanges under way
C5_Witness ==
  /\ answer = "invalid_state"
  /\ applicationState = "login_destination"
  /\ \E i \in Accepted : cb[i].pc = "exchanging"

\* C6: opening an authorization URL installs a token no earlier uuid() call
\* returned; a well-formed callback bearing an earlier token is answered
\* "invalid state" and not accepted, and an accepted callback bears the current one.
C6_OnlyLatestTokenAccepted ==
  [][/\ opened' # opened =>
          /\ oauthState' = opened'[Len(opened')].state
          /\ oauthState' \notin Issued \cup {0, oauthState}
     /\ \A responseState \in Issued \cup {0} :
          (callback("string", responseState) /\ responseState # oauthState)
          => (answer' = "invalid_state" /\ UNCHANGED cb)
     /\ Len(cb') > Len(cb) => cb'[Len(cb')].state = oauthState]_vars

\* both tokens were accepted in their time, and a well-formed callback was
\* refused for its state after the second was generated
C6_Witness ==
  /\ Len(opened) = 2
  /\ answer = "invalid_state"
  /\ \E i, j \in Accepted : cb[i].state = 1 /\ cb[j].state = 2

NoticesMatch(r) ==
  /\ Len(r.req) = Len(r.subs)
  /\ Len(r.notice) = Len(r.subs)
  /\ \A k \in 1..Len(r.subs) :
       /\ (r.notice[k] = "Subscribed") = (r.req[k] = "ok")
       /\ (r.notice[k] = "Failed") = (r.req[k] = "failed")
       /\ r.notice[k] \in {"none", "Subscribed", "Failed"}
  /\ r.pc = "done" => \A k \in 1..Len(r.subs) : r.notice[k] # "none"

C9_ReplicationEndsInSuccess ==
  (ReplFrames # {}) ~> (exitCode = 0 \/ exitCause = "no_subscriptions")

\* C10: a response that repeats the continuation token just sent ends the
\* enumeration: no new page request carries the token of the request before it.
C10_RepeatedTokenStops ==
  [][\A i \in CbIds :
       (/\ enum[i].pc = "fetching"
        /\ enum[i].nextPage # NoToken
        /\ enum'[i].requests > enum[i].requests)
       => enum'[i].nextPage # enum[i].nextPage]_vars

\* the items a page body carries: none when the field is absent
ItemsOf(body) == IF body.hasItems THEN body.items ELSE <<>>

\* an item reduced to its display title and its resource reference
Reduced(item) == [title |-> item.snippet.title, resourceId |-> item.snippet.resourceId]

\* the items of a list of pages, reduced, in page order and in arrival order
RECURSIVE Collected(_)
Collected(pages) ==
  IF pages = <<>> THEN <<>>
  ELSE LET last == pages[Len(pages)]
       IN Collected(SubSeq(pages, 1, Len(pages) - 1))
          \o [k \in 1..Len(ItemsOf(last)) |-> Reduced(ItemsOf(last)[k])]

\* the sum of the sizes of a list of pages
RECURSIVE SumSizes(_)
SumSizes(pages) ==
  IF pages = <<>> THEN 0
  ELSE SumSizes(SubSeq(pages, 1, Len(pages) - 1)) + Len(ItemsOf(pages[Len(pages)]))

\* C11: when an enumeration ends on a successful page without a continuation
\* token, after successful pages that each carried one, the sequence loginSource
\* receives has the sum of the page sizes as its length and is the concatenation
\* of the pages' items, pages in order and each page's items in arrival order.
C11_EnumeratorRoundTrip ==
  [][\A response \in EnumResponses :
       (/\ getAllSubscriptions(1, response)
        /\ response.ok
        /\ response.nextPageToken = NoToken)
       => LET fetched == Append(enum[1].pages, response)
          IN /\ Len(subscriptions') = SumSizes(fetched)
             /\ subscriptions' = Collected(fetched)]_vars

\* C12: when a page request is answered with a non-2xx status, the sequence
\* loginSource receives is the concatenation of the items of the pages fetched
\* before it, no further page request is issued, and loginSource carries on
\* with its result instead of failing.
C12_FailedPageReturnsPartial ==
  [][\A response \in EnumResponses :
       (getAllSubscriptions(1, response) /\ ~response.ok)
       => /\ subscriptions' = Collected(enum[1].pages)
          /\ enum'[1].pc \in {"prompt", "exited"}
          /\ enum'[1].sent = <<>>
          /\ exitCause' \in {"none", "no_subscriptions"}]_vars

\* C13: in a run that ended because a source enumeration came back empty, the
\* exit status is 1, no destination prompt was shown, the phase is still
\* login_source and no authorization URL was opened for the destination phase.
C13_EmptySourceEndsBeforeDestination ==
  exitCause = "no_subscriptions" =>
    /\ exitCode = 1
    /\ \A i \in Accepted : enum[i].pc \notin {"prompt", "done"}
    /\ applicationState = "login_source"
    /\ \A k \in 1..Len(opened) : opened[k].phase # "login_destination"

\* C14: when the token endpoint answers an accepted callback with a non-2xx
\* status or with a body without access_token, the handler ends there: phase,
\* anti-forgery token and subscriptions stay as they were, no enumeration and
\* no replication starts, no authorization URL is opened and nothing exits.
C14_NoTokenChangesNothing ==
  [][\A i \in CbIds, res \in {"not_ok", "no_access_token"}, throws \in BOOLEAN :
       callbackResume(i, res, throws)
       => /\ cb'[i].pc = "no_token"
          /\ UNCHANGED <<applicationState, oauthState, subscriptions, opened, enum, repl,
                         exitCode, exitCause>>]_vars

\* an exchange came back without a token in each phase: one while the phase was
\* login_source, before any enumeration, and one in phase login_destination
C14_Witness ==
  /\ applicationState = "login_destination"
  /\ \E i, j \in Accepted :
       /\ cb[i].pc = "no_token" /\ cb[i].state = 1 /\ i < j
       /\ cb[j].pc = "no_token" /\ cb[j].state = 2

\* C15: the process ends with status 1 only because a source enumeration has just
\* produced an empty sequence, and with status 0 only because the user declined
\* a prompt or a replication reported its completion; nothing else ends it.
C15_ExitStatusClassification ==
  /\ exitCode \in {Running, 0, 1}
  /\ exitCode = Running => exitCause = "none"
  /\ exitCode = 1 => exitCause = "no_subscriptions" /\ subscriptions = <<>>
  /\ exitCode = 0 => exitCause \in {"declined", "done"}

\* C16: declining the first prompt ends the process in that step with status 0,
\* with the phase still login_source and with no authorization URL opened, no
\* callback accepted for exchange and no enumeration or replication frame
\* started; and once the process has exited, nothing happens any more.
C16_DeclinedSourcePromptNoNetwork ==
  [][/\ promptSourceLogin(FALSE) =>
          /\ exitCode' = 0
          /\ applicationState' = "login_source"
          /\ opened' = <<>>
          /\ cb' = <<>>
          /\ \A i \in CbIds : enum'[i] = NoEnum /\ repl'[i] = NoRepl
     /\ exitCode # Running => UNCHANGED vars]_vars

\* the first prompt was declined after the receiver, already listening, had
\* refused a well-formed callback
C16_Witness ==
  /\ exitCode = 0
  /\ exitCause = "declined"
  /\ promptSource = "answered"
  /\ opened = <<>>
  /\ answer = "invalid_state"

\* C17: while an enumeration is fetching, it has issued exactly one request more
\* than it has received pages, so one request is outstanding; its first request
\* carried no page token and every later one the nextPageToken of the page
\* received just before it; an enumeration that is not fetching has none out.
C17_PageRequestsSequential ==
  \A i \in CbIds :
    IF enum[i].pc = "fetching"
      THEN /\ Len(enum[i].sent) = Len(enum[i].pages) + 1
           /\ Len(enum[i].sent) = enum[i].requests
           /\ enum[i].sent[1] = NoToken
           /\ \A n \in 2..Len(enum[i].sent) :
                /\ enum[i].pages[n - 1].nextPageToken # NoToken
                /\ enum[i].sent[n] = enum[i].pages[n - 1].nextPageToken
      ELSE enum[i].sent = <<>> /\ enum[i].requests = 0

\* the third page request is out, carrying the second page's token, which
\* differs from the first page's
C17_Witness ==
  /\ enum[1].pc = "fetching"
  /\ enum[1].sent = <<NoToken, 1, 2>>
  /\ Len(enum[1].pages) = 2

\* C18: while the process runs in phase login_destination the global
\* subscriptions is non-empty, and no loginDestination frame mapped an empty
\* array, whatever the number and order of the source enumerations.
C18_NonEmptyInDestinationPhase ==
  /\ (exitCode = Running /\ applicationState = "login_destination") => subscriptions # <<>>
  /\ \A i \in ReplFrames : repl[i].subs # <<>>

\* in phase login_destination a second source enumeration has come back after
\* the first one's prompt was confirmed, and a replication is under way
C18_Witness ==
  /\ exitCode = Running
  /\ applicationState = "login_destination"
  /\ \E i, j \in Accepted : enum[i].pc = "done" /\ enum[j].pc = "prompt"
  /\ \E i \in ReplFrames : repl[i].pc = "awaiting"

\* the items of a list of pages, reduced, as a set
ReducedItems(pages) ==
  UNION {{Reduced(ItemsOf(pages[n])[k]) : k \in 1..Len(ItemsOf(pages[n]))} :
           n \in 1..Len(pages)}

\* C19: every element of the sequence an enumeration hands to loginSource is the
\* title and resource reference of an item of a page it fetched, and pages that
\* carry no items, the field absent or the list empty, contribute no element.
C19_ElementsAreFetchedItems ==
  [][\A response \in EnumResponses :
       (getAllSubscriptions(1, response) /\ AssignsSubscriptions(1))
       => LET fetched == IF response.ok THEN Append(enum[1].pages, response)
                                        ELSE enum[1].pages
          IN /\ \A k \in 1..Len(subscriptions') :
                  subscriptions'[k] \in ReducedItems(fetched)
             /\ SumSizes(fetched) = 0 => subscriptions' = <<>>]_vars

\* C20: the step that dispatches an accepted callback after its exchange starts
\* loginSource alone if the phase is then login_source and loginDestination
\* alone if it is login_destination; no callback ever has both an enumeration
\* and a replication, none starts a handler at any other time, and the phase
\* never goes back from login_destination to login_source.
C20_OneHandlerByPhaseAtDispatch ==
  [][/\ \A i \in CbIds :
          /\ (/\ i \in Accepted
               /\ cb[i].pc = "exchanging"
               /\ cb'[i].pc \notin {"exchanging", "no_token"})
              => /\ applicationState = "login_source"
                      => cb'[i].pc = "loginSource" /\ enum'[i] = firstPage
                                                  /\ repl'[i] = NoRepl
                 /\ applicationState = "login_destination"
                      => cb'[i].pc = "loginDestination" /\ repl'[i].pc # "none"
                                                       /\ enum'[i] = NoEnum
          /\ ~(enum'[i].pc # "none" /\ repl'[i].pc # "none")
          /\ (\/ enum[i].pc = "none" /\ enum'[i].pc # "none"
              \/ repl[i].pc = "none" /\ repl'[i].pc # "none")
              => i \in Accepted /\ cb[i].pc = "exchanging"
     /\ applicationState' \in {"login_source", "login_destination"}
     /\ applicationState = "login_destination" => applicationState' = "login_destination"]_vars

\* in phase login_destination one callback has been dispatched to loginSource
\* and a later one to loginDestination
C20_Witness ==
  /\ applicationState = "login_destination"
  /\ \E i, j \in Accepted :
       /\ i < j
       /\ cb[i].pc = "loginSource" /\ enum[i].pc = "done" /\ repl[i] = NoRepl
       /\ cb[j].pc = "loginDestination" /\ repl[j].pc = "awaiting" /\ enum[j] = NoEnum

====
